---- MODULE Spec2Model ----
(***************************************************************************)
(* Model of the v-sizer library (src/src/lib.rs): the Resources value      *)
(* type and its operators, the InstanceType / Node projections, the        *)
(* Cluster aggregation, the Workloads fit test and the sizing search       *)
(* Cluster::for_topology_and_workload.                                     *)
(*                                                                         *)
(* Representation choices                                                  *)
(*  - Resources.memory is an AdjustedByte (byte_unit): an f64 value plus a *)
(*    decimal unit.  It is represented by the byte count that              *)
(*    .get_byte().get_bytes() reads back from it, so that record equality  *)
(*    is the derived PartialEq.  Building one from a u128 divides by the   *)
(*    unit in f64 and reading it multiplies back and truncates; the byte   *)
(*    counts that come back one lower are listed in LossyBytes.            *)
(*  - the u128 byte arithmetic either panics on overflow (overflow checks  *)
(*    on, the debug profile) or wraps (release profile).  PANIC marks the  *)
(*    first outcome.  HUGE marks an unsigned quantity at least 2^63, far   *)
(*    above every quantity of the model: a wrapped difference              *)
(*    2^128 - d, or an f64 that saturates the cast to u64.                 *)
(*  - Option<i64> is a sequence of length 0 (None) or 1 (Some(v)).         *)
(*  - cpu_over_commit_ratio holds d for the ratio 1/d (d a power of two,   *)
(*    so that 1.0 / ratio is exactly d in f32).                            *)
(*  - i64 arithmetic on cpus and vcpus stays far from 2^63 under the       *)
(*    bounds below and is modelled by unbounded integers.                  *)
(***************************************************************************)
EXTENDS Integers, Sequences, FiniteSets, TLC

VARIABLES
    overflow_checks,  \* build profile: TRUE = arithmetic overflow panics
    topology,         \* argument of for_topology_and_workload
    workloads,        \* run -> argument of for_topology_and_workload
    cluster,          \* run -> local `cluster`
    reasons,          \* run -> local `reasons`
    fits,             \* run -> the can_fit_into results, in evaluation order
    pc,               \* run -> position of the call
    a, b, k,          \* operands of a Resources operator call
    call,             \* the library function last called directly
    ret               \* its return value

vars == <<overflow_checks, topology, workloads, cluster, reasons, fits, pc,
          a, b, k, call, ret>>

search_vars == <<topology, workloads, cluster, reasons, fits, pc>>
call_vars == <<a, b, k, call, ret>>

\* ------------------------------------------------------------------ bounds
MaxWorkers == 6
MaxVmCount == 3
MaxCount == 3

\* ------------------------------------------------------------ value model
PANIC == -2
HUGE == -1

None == <<>>
Some(v) == <<v>>

Min(x, y) == IF x <= y THEN x ELSE y

\* Byte counts b in 1000 .. 15999 with trunc(fl(fl(b / 1000.0) * 1000.0)) = b - 1
\* in IEEE-754 binary64; every other b below 16000 reads back unchanged.
LossyBytes ==
    {1001, 1003, 1005, 1007, 1009, 1011, 1013, 1015, 1017, 1019, 1021, 1023,
     2002, 2006, 2010, 2014, 2018, 2022, 2026, 2030, 2034, 2038, 2042, 2046,
     4004, 4007, 4012, 4015, 4020, 4023, 4028, 4031, 4036, 4039, 4044, 4047,
     4052, 4055, 4060, 4063, 4068, 4071, 4076, 4079, 4084, 4087, 4092, 4095,
     8001, 8008, 8011, 8014, 8017, 8024, 8027, 8030, 8033, 8040, 8043, 8046,
     8049, 8056, 8059, 8062, 8065, 8072, 8075, 8078, 8081, 8088, 8091, 8094,
     8097, 8104, 8107, 8110, 8120, 8123, 8126, 8133, 8136, 8139, 8142, 8149,
     8152, 8155, 8158, 8165, 8168, 8171, 8174, 8181, 8184, 8187, 8190}

\* Byte::from_bytes(bytes).get_appropriate_unit(false), as read back by get_bytes
adjusted_from_bytes(bytes) ==
    IF bytes \in {PANIC, HUGE} THEN bytes
    ELSE IF bytes \in LossyBytes THEN bytes - 1
    ELSE bytes

\* memory.get_byte().get_bytes()
get_bytes(memory) == memory

\* u128 +
u128_add(x, y) ==
    IF x = PANIC \/ y = PANIC THEN PANIC
    ELSE IF x = HUGE \/ y = HUGE THEN HUGE
    ELSE x + y

\* u128 - : panics or wraps below zero; the right operand is never HUGE in
\* the library (it is always read from an input or from a product of inputs)
u128_sub(x, y) ==
    IF x = PANIC \/ y = PANIC THEN PANIC
    ELSE IF x = HUGE \/ y = HUGE THEN HUGE
    ELSE IF x >= y THEN x - y
    ELSE IF overflow_checks THEN PANIC
    ELSE HUGE

\* u128 * (_rhs as u128)
u128_mul(x, n) ==
    IF x = PANIC THEN PANIC
    ELSE IF x = HUGE THEN (IF n = 0 THEN 0 ELSE HUGE)
    ELSE x * n

\* u128 <
u128_lt(x, y) ==
    IF x = HUGE THEN FALSE
    ELSE IF y = HUGE THEN TRUE
    ELSE x < y

Panicked(r) == r.memory = PANIC

\* ------------------------------------------------------ Resources operators
add_vcpus(l, r) ==
    IF l # None /\ r # None THEN Some(l[1] + r[1])
    ELSE IF l # None THEN l
    ELSE IF r # None THEN r
    ELSE None

\* variant: a vcpus value present only on the right is negated
sub_vcpus_negating(l, r) ==
    IF l # None /\ r # None THEN Some(l[1] - r[1])
    ELSE IF l # None THEN l
    ELSE IF r # None THEN Some(0 - r[1])
    ELSE None

sub_vcpus(l, r) ==
    IF l # None /\ r # None THEN Some(l[1] - r[1])
    ELSE IF l # None THEN l
    ELSE IF r # None THEN r
    ELSE None

mul_vcpus(l, n) == IF l # None THEN Some(l[1] * n) ELSE None

add(self, rhs) ==
    [memory |-> adjusted_from_bytes(u128_add(get_bytes(self.memory), get_bytes(rhs.memory))),
     cpus   |-> self.cpus + rhs.cpus,
     vcpus  |-> add_vcpus(self.vcpus, rhs.vcpus)]

sub(self, rhs) ==
    [memory |-> adjusted_from_bytes(u128_sub(get_bytes(self.memory), get_bytes(rhs.memory))),
     cpus   |-> self.cpus - rhs.cpus,
     vcpus  |-> sub_vcpus(self.vcpus, rhs.vcpus)]

mul(self, rhs) ==
    [memory |-> adjusted_from_bytes(u128_mul(get_bytes(self.memory), rhs)),
     cpus   |-> self.cpus * rhs,
     vcpus  |-> mul_vcpus(self.vcpus, rhs)]

\* -------------------------------------------------------------- InstanceType
resource_footprint(it) ==
    add(add(it.guest, it.consumed_by_system), it.reserved_for_overhead)

\* (x as f64 / y as f64).floor() as u64 for a u128 or i64 x and y:
\* exact below 2^53; x / 0 is inf or NaN, and the cast saturates
fit_bound(x, y) ==
    IF x = HUGE THEN HUGE
    ELSE IF y = 0 THEN (IF x > 0 THEN HUGE ELSE 0)
    ELSE IF (x < 0) # (y < 0) /\ x # 0 THEN 0
    ELSE IF y < 0 THEN (0 - x) \div (0 - y)
    ELSE x \div y

\* variant: the two strict comparisons carry each other's tag
how_many_fit_into_swapped_tags(it, resources) ==
    LET avail == resources.available_to_workloads
        req == add(add(it.guest, it.consumed_by_system), it.reserved_for_overhead)
        fit_into_memory == fit_bound(get_bytes(avail.memory), get_bytes(req.memory))
        fit_into_cpu == fit_bound(avail.cpus, req.cpus)
    IN  IF u128_lt(fit_into_memory, fit_into_cpu)
          THEN <<fit_into_memory, "CPU constraint">>
        ELSE IF u128_lt(fit_into_cpu, fit_into_memory)
          THEN <<fit_into_cpu, "Memory constraint">>
        ELSE <<fit_into_cpu, "CPU and memory constratint">>

how_many_fit_into(it, resources) ==
    LET avail == resources.available_to_workloads
        req == resource_footprint(it)
        fit_into_memory == fit_bound(get_bytes(avail.memory), get_bytes(req.memory))
        fit_into_cpu == fit_bound(avail.cpus, req.cpus)
    IN  IF u128_lt(fit_into_memory, fit_into_cpu)
          THEN <<fit_into_memory, "Memory constraint">>
        ELSE IF u128_lt(fit_into_cpu, fit_into_memory)
          THEN <<fit_into_cpu, "CPU constraint">>
        ELSE <<fit_into_cpu, "CPU and memory constratint">>

\* ---------------------------------------------------------------------- Node
compute_allocatable(node) ==
    sub(sub(node.capacity, node.consumed_by_system), node.reserved_for_overhead)

\* ------------------------------------------------------------------- Cluster
resources(self) ==
    LET worker_node == self.topology.worker_node
        consumed == mul(worker_node.consumed_by_system, self.worker_node_count)
        overhead == mul(worker_node.reserved_for_overhead, self.worker_node_count)
        workload == mul(compute_allocatable(worker_node), self.worker_node_count)
        ctl_node_count == self.control_plane_node_count
        ctl_node == self.topology.control_plane_node
        ctl_capacity == mul(ctl_node.capacity, ctl_node_count)
        ctl_consumed == mul(ctl_node.consumed_by_system, ctl_node_count)
        ctl_overhead == mul(ctl_node.reserved_for_overhead, ctl_node_count)
        ctl_workload == sub(sub(ctl_capacity, ctl_consumed), ctl_overhead)
        sched == self.topology.schedulable_control_plane
        consumed2 == IF sched THEN add(consumed, ctl_consumed) ELSE consumed
        overhead2 == IF sched THEN add(overhead, ctl_overhead) ELSE overhead
        workload2 == IF sched THEN add(workload, ctl_workload) ELSE workload
    IN  [consumed_by_system    |-> consumed2,
         reserved_for_overhead |-> overhead2,
         available_to_workloads |->
             [workload2 EXCEPT !.vcpus =
                 Some(workload2.cpus * self.topology.cpu_over_commit_ratio)]]

\* ----------------------------------------------------------------- Workloads
required_capacity(w) == mul(resource_footprint(w.instance_type), w.vm_count)

\* variant: the requirement is the host-side footprint (required_capacity)
required_resources_footprint(w) ==
    mul(add(add(w.instance_type.guest, w.instance_type.consumed_by_system),
            w.instance_type.reserved_for_overhead), w.vm_count)

required_resources(w) ==
    LET c == w.vm_count
    IN  [memory |-> adjusted_from_bytes(u128_mul(get_bytes(w.instance_type.guest.memory), c)),
         cpus   |-> w.instance_type.guest.cpus * c,
         vcpus  |-> IF w.instance_type.guest.vcpus # None
                      THEN Some(w.instance_type.guest.vcpus[1] * c) ELSE None]

\* variant: the cpu check runs before the memory check
can_fit_into_cpu_first(w, res) ==
    LET avail == res.available_to_workloads
        req == required_resources(w)
        avail_mem == get_bytes(avail.memory)
        req_mem == get_bytes(req.memory)
    IN  IF avail.cpus < req.cpus
          THEN [result |-> FALSE, reasons |-> <<"Constrained by pCPU">>]
        ELSE IF u128_lt(avail_mem, req_mem)
          THEN [result |-> FALSE, reasons |-> <<"Constrained by memory">>]
        ELSE [result |-> TRUE, reasons |-> <<>>]

can_fit_into(w, res) ==
    LET avail == res.available_to_workloads
        req == required_resources(w)
        avail_mem == get_bytes(avail.memory)
        req_mem == get_bytes(req.memory)
    IN  IF u128_lt(avail_mem, req_mem)
          THEN [result |-> FALSE, reasons |-> <<"Constrained by memory">>]
        ELSE IF avail.cpus < req.cpus
          THEN [result |-> FALSE, reasons |-> <<"Constrained by pCPU">>]
        ELSE [result |-> TRUE, reasons |-> <<>>]

\* --------------------------------------------------------------- input sets
Res(m, c, v) == [memory |-> m, cpus |-> c, vcpus |-> v]

MkNode(cap, cons, ovh) ==
    [description |-> "node", capacity |-> cap,
     consumed_by_system |-> cons, reserved_for_overhead |-> ovh]

Zero == Res(0, 0, None)

WorkerNodes ==
    { MkNode(Res(400, 4, None), Res(m, c, None), ovh) :
        m \in {0, 100, 500}, c \in {0, 1, 5}, ovh \in {Zero, Res(300, 3, None)} }

ControlPlaneNodes ==
    { MkNode(Res(337, 2, None), cons, Zero) :
        cons \in {Zero, Res(10, 0, None), Res(500, 0, None)} }

Topologies ==
    [schedulable_control_plane : BOOLEAN,
     control_plane_node : ControlPlaneNodes,
     worker_node : WorkerNodes,
     cpu_over_commit_ratio : {1, 2}]

InstanceTypes ==
    [name : {"u1"},
     guest : { Res(m, c, v) : m \in {300, 500}, c \in {1, 2}, v \in {None, Some(8)} },
     consumed_by_system : {Zero, Res(50, 1, Some(1))},
     reserved_for_overhead : {Res(20, 0, None)}]

WorkloadsSet == [vm_count : 0 .. MaxVmCount, instance_type : InstanceTypes]

Runs == {1, 2}

HEADROOM_REASON ==
    "One additional node is getting included on top of the required ones, in order to enable full-node drains required for updating the cluster"

CONTROL_PLANE_NODE_COUNT == 3

\* let mut reasons = Vec::new(); let mut cluster = Cluster { .. }
NewCluster(t) ==
    [topology |-> t,
     control_plane_node_count |-> CONTROL_PLANE_NODE_COUNT,
     worker_node_count |-> 0]

NoCall ==
    /\ a = Zero /\ b = Zero /\ k = 0
    /\ call = "none" /\ ret = None

\* One call of for_topology_and_workload, entered; run 2 is not started.
Init ==
    /\ overflow_checks \in BOOLEAN
    /\ topology \in Topologies
    /\ \E w \in WorkloadsSet : workloads = [i \in Runs |-> w]
    /\ cluster = [i \in Runs |-> NewCluster(topology)]
    /\ reasons = [i \in Runs |-> <<>>]
    /\ fits = [i \in Runs |-> <<>>]
    /\ pc = [i \in Runs |-> IF i = 1 THEN "loop" ELSE "idle"]
    /\ NoCall

\* ------------------------------------------- Cluster::for_topology_and_workload
\* the value of `fit_into_cluster` in the iteration about to run
fit_into_cluster(i) == can_fit_into(workloads[i], resources(cluster[i]))

\* cluster.resources() panics (u128 subtraction overflow, overflow checks on)
LoopPanic(i) ==
    /\ pc[i] = "loop"
    /\ Panicked(resources(cluster[i]).available_to_workloads)
    /\ pc' = [pc EXCEPT ![i] = "panicked"]
    /\ UNCHANGED <<overflow_checks, topology, workloads, cluster, reasons, fits>>
    /\ UNCHANGED call_vars

\* an iteration whose fit test fails: increment and loop again
LoopContinue(i) ==
    /\ pc[i] = "loop"
    /\ cluster[i].worker_node_count < MaxWorkers
    /\ ~Panicked(resources(cluster[i]).available_to_workloads)
    /\ fit_into_cluster(i).result # TRUE
    /\ fits' = [fits EXCEPT ![i] = Append(@, fit_into_cluster(i))]
    /\ cluster' = [cluster EXCEPT ![i].worker_node_count = @ + 1]
    /\ UNCHANGED <<overflow_checks, topology, workloads, reasons, pc>>
    /\ UNCHANGED call_vars

\* variant: the break is taken before the increment
LoopBreak_before_increment(i) ==
    /\ pc[i] = "loop"
    /\ cluster[i].worker_node_count < MaxWorkers
    /\ ~Panicked(resources(cluster[i]).available_to_workloads)
    /\ fit_into_cluster(i).result = TRUE
    /\ fits' = [fits EXCEPT ![i] = Append(@, fit_into_cluster(i))]
    /\ reasons' = [reasons EXCEPT ![i] = Append(@, HEADROOM_REASON)]
    /\ pc' = [pc EXCEPT ![i] = "done"]
    /\ UNCHANGED <<overflow_checks, topology, workloads, cluster>>
    /\ UNCHANGED call_vars

\* variant: the break is taken when the fit test fails
LoopBreak_on_misfit(i) ==
    /\ pc[i] = "loop"
    /\ cluster[i].worker_node_count < MaxWorkers
    /\ ~Panicked(resources(cluster[i]).available_to_workloads)
    /\ fit_into_cluster(i).result # TRUE
    /\ fits' = [fits EXCEPT ![i] = Append(@, fit_into_cluster(i))]
    /\ cluster' = [cluster EXCEPT ![i].worker_node_count = @ + 1]
    /\ reasons' = [reasons EXCEPT ![i] = Append(@, HEADROOM_REASON)]
    /\ pc' = [pc EXCEPT ![i] = "done"]
    /\ UNCHANGED <<overflow_checks, topology, workloads>>
    /\ UNCHANGED call_vars

\* the iteration whose fit test succeeds: increment, break, push the reason
\* and return
LoopBreak(i) ==
    /\ pc[i] = "loop"
    /\ cluster[i].worker_node_count < MaxWorkers
    /\ ~Panicked(resources(cluster[i]).available_to_workloads)
    /\ fit_into_cluster(i).result = TRUE
    /\ fits' = [fits EXCEPT ![i] = Append(@, fit_into_cluster(i))]
    /\ cluster' = [cluster EXCEPT ![i].worker_node_count = @ + 1]
    /\ reasons' = [reasons EXCEPT ![i] = Append(@, HEADROOM_REASON)]
    /\ pc' = [pc EXCEPT ![i] = "done"]
    /\ UNCHANGED <<overflow_checks, topology, workloads>>
    /\ UNCHANGED call_vars

Next ==
    \/ \E i \in Runs : LoopPanic(i)
    \/ \E i \in Runs : LoopContinue(i)
    \/ \E i \in Runs : LoopBreak(i)

Spec == Init /\ [][Next]_vars

\* One call on a topology without schedulable control plane; the loop is a
\* running computation, so an enabled iteration is eventually taken.
InitFair ==
    /\ Init
    /\ ~topology.schedulable_control_plane
    /\ topology.cpu_over_commit_ratio = 1
    /\ topology.control_plane_node.consumed_by_system = Zero
    /\ workloads[1].vm_count \in {1, MaxVmCount}
    /\ workloads[1].instance_type.guest = Res(300, 1, None)
    /\ workloads[1].instance_type.consumed_by_system = Zero

FairSpec == InitFair /\ [][Next]_vars /\ WF_vars(Next)

\* One call on either kind of control plane, for workloads of at most one
\* VM: a worker node that adds capacity covers them within MaxWorkers
\* iterations.  The loop is a running computation, as in FairSpec.
InitTerm ==
    /\ Init
    /\ topology.cpu_over_commit_ratio = 1
    /\ topology.control_plane_node.consumed_by_system # Res(10, 0, None)
    /\ topology.worker_node.consumed_by_system.memory = 0
    /\ topology.worker_node.consumed_by_system.cpus \in {0, 1}
    /\ workloads[1].vm_count \in {0, 1}
    /\ workloads[1].instance_type.guest = Res(500, 2, Some(8))
    /\ workloads[1].instance_type.consumed_by_system = Zero

SpecTerm == InitTerm /\ [][Next]_vars /\ WF_vars(Next)

\* ------------------------------------------------ two calls, same topology
\* Two calls of for_topology_and_workload on one topology, with workloads
\* that agree on guest memory, guest cpus and vm_count.
SameDemand(w1, w2) ==
    /\ w1.vm_count = w2.vm_count
    /\ w1.instance_type.guest.memory = w2.instance_type.guest.memory
    /\ w1.instance_type.guest.cpus = w2.instance_type.guest.cpus

PairTopologies ==
    { t \in Topologies :
        /\ t.cpu_over_commit_ratio = 1
        /\ t.control_plane_node.consumed_by_system = Zero }

InitPair ==
    /\ overflow_checks \in BOOLEAN
    /\ topology \in PairTopologies
    /\ \E w1 \in WorkloadsSet : \E w2 \in WorkloadsSet :
          /\ SameDemand(w1, w2)
          /\ w1 # w2
          /\ workloads = [i \in Runs |-> IF i = 1 THEN w1 ELSE w2]
    /\ cluster = [i \in Runs |-> NewCluster(topology)]
    /\ reasons = [i \in Runs |-> <<>>]
    /\ fits = [i \in Runs |-> <<>>]
    /\ pc = [i \in Runs |-> "loop"]
    /\ NoCall

SpecPair == InitPair /\ [][Next]_vars

\* ------------------------------------------------- direct calls: arithmetic
ResourceValues ==
    { Res(m, c, v) : m \in {0, 337, 500, 501}, c \in {-1, 0, 3},
                     v \in {None, Some(2), Some(8)} }

NoSearch ==
    /\ topology \in {t \in Topologies :
          /\ t.schedulable_control_plane
          /\ t.cpu_over_commit_ratio = 1
          /\ t.worker_node.consumed_by_system = Zero
          /\ t.worker_node.reserved_for_overhead = Zero
          /\ t.control_plane_node.consumed_by_system = Zero}
    /\ workloads \in {[i \in Runs |-> w] : w \in {x \in WorkloadsSet :
          /\ x.vm_count = 0
          /\ x.instance_type.guest = Res(300, 1, None)
          /\ x.instance_type.consumed_by_system = Zero}}
    /\ cluster = [i \in Runs |-> NewCluster(topology)]
    /\ reasons = [i \in Runs |-> <<>>]
    /\ fits = [i \in Runs |-> <<>>]
    /\ pc = [i \in Runs |-> "idle"]

InitArith ==
    /\ overflow_checks \in BOOLEAN
    /\ NoSearch
    /\ a \in ResourceValues
    /\ b \in ResourceValues
    /\ k \in 0 .. MaxCount
    /\ call = "none"
    /\ ret = None

\* &a + &b
CallAdd ==
    /\ call = "none"
    /\ call' = "add"
    /\ ret' = add(a, b)
    /\ UNCHANGED <<overflow_checks, a, b, k>>
    /\ UNCHANGED search_vars

\* &a - &b
CallSub ==
    /\ call = "none"
    /\ call' = "sub"
    /\ ret' = sub(a, b)
    /\ UNCHANGED <<overflow_checks, a, b, k>>
    /\ UNCHANGED search_vars

\* a * k
CallMul ==
    /\ call = "none"
    /\ call' = "mul"
    /\ ret' = mul(a, k)
    /\ UNCHANGED <<overflow_checks, a, b, k>>
    /\ UNCHANGED search_vars

\* (a + b) - &b, on the sum returned by CallAdd
CallSubRhs ==
    /\ call = "add"
    /\ call' = "add_sub_rhs"
    /\ ret' = sub(ret, b)
    /\ UNCHANGED <<overflow_checks, a, b, k>>
    /\ UNCHANGED search_vars

\* (a + b) - &a, on the sum returned by CallAdd
CallSubLhs ==
    /\ call = "add"
    /\ call' = "add_sub_lhs"
    /\ ret' = sub(ret, a)
    /\ UNCHANGED <<overflow_checks, a, b, k>>
    /\ UNCHANGED search_vars

NextArith == CallAdd \/ CallSub \/ CallMul \/ CallSubRhs \/ CallSubLhs

SpecArith == InitArith /\ [][NextArith]_vars

\* ---------------------------------------- direct calls: cluster and workload
\* A Cluster as loaded from a file: both counts are free fields.
InitCluster ==
    /\ overflow_checks \in BOOLEAN
    /\ topology \in Topologies
    /\ \E w \in WorkloadsSet : workloads = [i \in Runs |-> w]
    /\ \E cp \in {0, CONTROL_PLANE_NODE_COUNT} : \E n \in 0 .. MaxCount :
          cluster = [i \in Runs |->
              [topology |-> topology,
               control_plane_node_count |-> cp,
               worker_node_count |-> n]]
    /\ reasons = [i \in Runs |-> <<>>]
    /\ fits = [i \in Runs |-> <<>>]
    /\ pc = [i \in Runs |-> "idle"]
    /\ NoCall

\* cluster.resources()
CallResources ==
    /\ call = "none"
    /\ call' = "resources"
    /\ ret' = resources(cluster[1])
    /\ UNCHANGED <<overflow_checks, a, b, k>>
    /\ UNCHANGED search_vars

\* workloads.can_fit_into(&cluster.resources())
CallCanFitInto ==
    /\ call = "none"
    /\ ~Panicked(resources(cluster[1]).available_to_workloads)
    /\ call' = "can_fit_into"
    /\ ret' = can_fit_into(workloads[1], resources(cluster[1]))
    /\ UNCHANGED <<overflow_checks, a, b, k>>
    /\ UNCHANGED search_vars

\* workloads.instance_type.how_many_fit_into(&cluster.resources())
CallHowManyFitInto ==
    /\ call = "none"
    /\ ~Panicked(resources(cluster[1]).available_to_workloads)
    /\ call' = "how_many_fit_into"
    /\ ret' = how_many_fit_into(workloads[1].instance_type, resources(cluster[1]))
    /\ UNCHANGED <<overflow_checks, a, b, k>>
    /\ UNCHANGED search_vars

NextCluster == CallResources \/ CallCanFitInto \/ CallHowManyFitInto

SpecCluster == InitCluster /\ [][NextCluster]_vars

\* ==================================================================== claims
\* can_fit_into(cluster.resources()).result of run i's arguments at n workers
FitsAt(i, n) ==
    can_fit_into(workloads[i],
                 resources([cluster[i] EXCEPT !.worker_node_count = n])).result

\* C1: whenever the search has returned, control_plane_node_count is 3 and
\* worker_node_count is N + 1 for the smallest N >= 0 at which the workload
\* fits; a workload of no VMs, which fits with 0 workers, returns 1 worker.
C1_SmallestFitPlusOne ==
    \A i \in Runs : pc[i] = "done" =>
        /\ cluster[i].control_plane_node_count = 3
        /\ \E N \in 0 .. MaxWorkers :
              /\ cluster[i].worker_node_count = N + 1
              /\ FitsAt(i, N)
              /\ \A m \in 0 .. (N - 1) : ~FitsAt(i, m)
        /\ (workloads[i].vm_count = 0 => cluster[i].worker_node_count = 1)

\* a search that returned after two failed iterations (N = 2)
C1_Witness ==
    /\ pc[1] = "done"
    /\ cluster[1].worker_node_count = 3
    /\ Len(fits[1]) = 3

\* The worker node adds no cpus (or no memory) and the workload is already
\* short of cpus (or memory) with 0 workers: no worker count makes it fit.
NeverFits(i) ==
    LET al == compute_allocatable(topology.worker_node)
        avail0 == resources(NewCluster(topology)).available_to_workloads
        req == required_resources(workloads[i])
    IN  /\ al.memory # PANIC
        /\ \/ al.cpus <= 0 /\ avail0.cpus < req.cpus
           \/ /\ al.memory = 0
              /\ avail0.memory # HUGE
              /\ avail0.memory < req.memory

\* C2: when the workload fits at no worker count, the search stops and
\* reports the declared "unsatisfiable" error.
C2_UnsatisfiableReported ==
    [](pc[1] = "loop" /\ NeverFits(1) => <>(pc[1] = "unsatisfiable"))

\* C3: can_fit_into is (false, <<memory reason>>) when available memory is
\* below the required memory, else (false, <<cpu reason>>) when available
\* cpus are below the required cpus, else (true, <<>>); it is a function of
\* the memory and cpus fields only.
C3_FitTest ==
    call = "can_fit_into" =>
        LET avail == resources(cluster[1]).available_to_workloads
            req_mem == adjusted_from_bytes(
                           workloads[1].instance_type.guest.memory * workloads[1].vm_count)
            req_cpus == workloads[1].instance_type.guest.cpus * workloads[1].vm_count
            mem_short == avail.memory # HUGE /\ avail.memory < req_mem
            cpu_short == avail.cpus < req_cpus
        IN  ret = IF mem_short
                    THEN [result |-> FALSE, reasons |-> <<"Constrained by memory">>]
                  ELSE IF cpu_short
                    THEN [result |-> FALSE, reasons |-> <<"Constrained by pCPU">>]
                  ELSE [result |-> TRUE, reasons |-> <<>>]

\* memory and cpus are both short, and the memory reason alone is returned
C3_Witness ==
    /\ call = "can_fit_into"
    /\ LET avail == resources(cluster[1]).available_to_workloads
           req == required_resources(workloads[1])
       IN  /\ avail.memory # HUGE
           /\ avail.memory < req.memory
           /\ avail.cpus < req.cpus
    /\ ret.reasons = <<"Constrained by memory">>

\* C4: available_to_workloads equals, in memory and cpus,
\* compute_allocatable(worker_node) * worker_node_count, plus
\* compute_allocatable(control_plane_node) * control_plane_node_count exactly
\* when schedulable_control_plane is true; when it is false the control-plane
\* node and its count have no effect on any of the three totals.
C4_ClosedForm ==
    (call = "resources" /\ ~Panicked(ret.available_to_workloads)) =>
        LET t == cluster[1].topology
            workers == mul(compute_allocatable(t.worker_node),
                           cluster[1].worker_node_count)
            control == mul(compute_allocatable(t.control_plane_node),
                           cluster[1].control_plane_node_count)
            expected == IF t.schedulable_control_plane
                          THEN add(workers, control) ELSE workers
        IN  /\ ret.available_to_workloads.memory = expected.memory
            /\ ret.available_to_workloads.cpus = expected.cpus
            /\ ~t.schedulable_control_plane =>
                  \A cp \in ControlPlaneNodes : \A n \in 0 .. MaxCount :
                      resources([cluster[1] EXCEPT
                                   !.topology.control_plane_node = cp,
                                   !.control_plane_node_count = n]) = ret

\* C5: (a + b) - b = a and (a + b) - a = b in all three fields, for every
\* a and b.
C5_AddSubRoundTrip ==
    /\ call = "add_sub_rhs" => ret = a
    /\ call = "add_sub_lhs" => ret = b

\* C6: the vcpus of a sum or difference is the operator applied to both
\* values when both sides have one, the one present value unchanged when
\* exactly one side has one, and absent when neither has; a product has
\* vcpus multiplied by the count when present and absent otherwise.
C6_VcpusRule ==
    /\ call = "add" =>
          ret.vcpus = IF a.vcpus # None /\ b.vcpus # None
                        THEN Some(a.vcpus[1] + b.vcpus[1])
                      ELSE IF a.vcpus # None THEN a.vcpus
                      ELSE b.vcpus
    /\ (call = "sub" /\ ~Panicked(ret)) =>
          ret.vcpus = IF a.vcpus # None /\ b.vcpus # None
                        THEN Some(a.vcpus[1] - b.vcpus[1])
                      ELSE IF a.vcpus # None THEN a.vcpus
                      ELSE b.vcpus
    /\ call = "mul" =>
          ret.vcpus = IF a.vcpus # None THEN Some(a.vcpus[1] * k) ELSE None

\* a difference whose left side has no vcpus carries the right side's value
C6_Witness ==
    /\ call = "sub"
    /\ ~Panicked(ret)
    /\ a.vcpus = None
    /\ b.vcpus = Some(8)
    /\ ret.vcpus = Some(8)

\* C7: subtraction never fails and never saturates: the memory and cpus of
\* a - b are the signed differences a.memory - b.memory and a.cpus - b.cpus.
C7_SignedDifference ==
    call = "sub" =>
        /\ ret.memory = a.memory - b.memory
        /\ ret.cpus = a.cpus - b.cpus

RECURSIVE FitReasons(_)
\* the reasons of a sequence of can_fit_into results, in order
FitReasons(rs) ==
    IF rs = <<>> THEN <<>>
    ELSE rs[1].reasons \o FitReasons(Tail(rs))

IsHeadroom(r) == r = HEADROOM_REASON
IsNotHeadroom(r) == r # HEADROOM_REASON

\* C8: the returned reasons hold the drain-headroom explanation and, in the
\* order produced, every reason returned by the can_fit_into evaluations.
C8_ReasonTrail ==
    pc[1] = "done" =>
        /\ Len(SelectSeq(reasons[1], IsHeadroom)) = 1
        /\ SelectSeq(reasons[1], IsNotHeadroom) = FitReasons(fits[1])

\* C9: for a positive footprint and non-negative available memory and cpus,
\* how_many_fit_into returns the smaller of floor(available.memory /
\* footprint.memory) and floor(available.cpus / footprint.cpus), tagged
\* memory or cpu when that bound is strictly smaller and both on a tie.
C9_HowManyFit ==
    call = "how_many_fit_into" =>
        LET avail == resources(cluster[1]).available_to_workloads
            it == workloads[1].instance_type
            footprint == add(add(it.guest, it.consumed_by_system),
                             it.reserved_for_overhead)
            by_memory == avail.memory \div footprint.memory
            by_cpu == avail.cpus \div footprint.cpus
        IN  (/\ footprint.memory > 0 /\ footprint.cpus > 0
             /\ avail.memory >= 0 /\ avail.cpus >= 0) =>
                /\ ret[1] = Min(by_memory, by_cpu)
                /\ by_memory < by_cpu => ret[2] = "Memory constraint"
                /\ by_cpu < by_memory => ret[2] = "CPU constraint"
                /\ by_cpu = by_memory => ret[2] = "CPU and memory constratint"

\* the cpu bound is the strictly smaller one and at least one instance fits
C9_Witness ==
    /\ call = "how_many_fit_into"
    /\ LET avail == resources(cluster[1]).available_to_workloads
           footprint == resource_footprint(workloads[1].instance_type)
       IN  /\ avail.memory >= 0 /\ avail.cpus >= 0
           /\ footprint.memory > 0 /\ footprint.cpus > 0
           /\ avail.cpus \div footprint.cpus < avail.memory \div footprint.memory
    /\ ret[1] >= 2
    /\ ret[2] = "CPU constraint"

\* C10: two searches on one topology whose workloads agree on guest memory,
\* guest cpus and vm_count return the same worker_node_count, whatever
\* their consumed_by_system, reserved_for_overhead and guest vcpus.
C10_DemandOnly ==
    (pc[1] = "done" /\ pc[2] = "done") =>
        cluster[1].worker_node_count = cluster[2].worker_node_count

\* both searches returned after failed iterations, on workloads that differ
\* in consumed_by_system and in guest vcpus
C10_Witness ==
    /\ pc[1] = "done" /\ pc[2] = "done"
    /\ cluster[1].worker_node_count >= 3
    /\ workloads[1].instance_type.consumed_by_system
          # workloads[2].instance_type.consumed_by_system
    /\ workloads[1].instance_type.guest.vcpus
          # workloads[2].instance_type.guest.vcpus

\* the worker node's allocatable memory and cpus, as signed integers
WorkerAllocatableMemory ==
    topology.worker_node.capacity.memory
        - topology.worker_node.consumed_by_system.memory
        - topology.worker_node.reserved_for_overhead.memory

WorkerAllocatableCpus ==
    topology.worker_node.capacity.cpus
        - topology.worker_node.consumed_by_system.cpus
        - topology.worker_node.reserved_for_overhead.cpus

\* C11: when the worker node's allocatable memory and cpus are both at
\* least 1, the loop eventually reaches an iteration that fits and returns,
\* with either value of schedulable_control_plane; worker_node_count grows
\* by exactly 1 per iteration and never decreases.
C11_Terminates ==
    /\ []((pc[1] = "loop" /\ WorkerAllocatableMemory >= 1
                          /\ WorkerAllocatableCpus >= 1)
            => <>(pc[1] = "done" /\ fits[1][Len(fits[1])].result = TRUE))
    /\ [][\/ cluster'[1].worker_node_count = cluster[1].worker_node_count + 1
          \/ cluster'[1].worker_node_count = cluster[1].worker_node_count]_vars
    /\ [](cluster[1].worker_node_count = Len(fits[1]))

====
